---- MODULE Spec2Model ----
(***************************************************************************)
(* Running-analytics: the Strava synchronisation pipeline of app.py (the   *)
(* interactive Streamlit script) and update_data.py (the unattended run).  *)
(*                                                                         *)
(* Time is counted in half-hour slots since 2024-01-01 00:00 (a Monday).   *)
(* A run of n equal list elements is kept as one pair [rec, n], so a page  *)
(* of 200 activities is one element of the modelled list.                  *)
(***************************************************************************)
EXTENDS Integers, Sequences, FiniteSets, TLC

VARIABLES
    now,            \* datetime.now(), in half-hour slots
    configFile,     \* app_config.json: None when the file does not exist, else Some(dict)
    due,            \* Some(result) of the last should_update_data call, None before any
    dueArgs,        \* the (config, now) that call saw
    raw_data,       \* the value handed to process_data, None before the fetch returned
    df,             \* Some(outcome of process_data), None before it ran
    csvFile,        \* running_data.csv: None when the file does not exist, else Some(text)
    dropped,        \* derived columns the stored snapshot was written without (older schema)
    loaded,         \* Some(outcome of load_data reading the file), None before it ran
    app,            \* where main() of app.py stands: "idle", "button", "goal", "auto", "load", "render"
    op,             \* the running operation: "none", "manual", "auto", "load", "unattended"
    pc,             \* its next step: "none", "fetch", "token", "page", "process", "open", "write",
                    \* "config", "done"
    appConfig,      \* config of main()
    autoConfig,     \* config of auto_update_if_needed
    page,           \* page of fetch_strava_data
    all_activities, \* all_activities of fetch_strava_data
    tokenCache,     \* st.cache_data entry of get_access_token: None or Some(stored at)
    fetchCache,     \* st.cache_data entry of fetch_strava_data: None or Some([value, at])
    remote,         \* the endpoint: [runaway, wild], runaway when it serves full pages
                    \* forever during this fetch, wild when it may do so
    exitStatus,     \* exit status of the unattended run, None while it has none
    runs,           \* runs of the two scripts started so far
    reqs,           \* history: the page requests of this operation, [page, ok, len] each
    tokenReqs,      \* history: the token requests of this operation, "ok" or "failed" each
    pre,            \* history: the two files as they were when this operation started
    raised,         \* history: the step of this operation that raised, "none" if none did
    saving,         \* history: Some(text to_csv is writing or wrote in this operation)
    outcome,        \* history: "none", "running", "success", "failed"
    stamps,         \* history: the clock values the automatic syncs stored as last_update
    paceArg,        \* argument of classify_pace_zone
    zone,           \* Some(what it returned), None before the call
    pageRows,       \* the rows of df the page shows: [date, distance_km] each
    today,          \* datetime.now().date() of the page, as a day number
    max_streak,     \* Some(max_streak of main()), None before it is computed
    current_streak, \* Some(current_streak of main()), None before it is computed
    heatmap_data    \* Some(outcome of the pivot of create_activity_heatmap), None before

schedVars == <<now, configFile, due, dueArgs>>
procVars == <<raw_data, df, csvFile, dropped, loaded>>
syncVars == <<app, op, pc, appConfig, autoConfig, page, all_activities, tokenCache, fetchCache,
              remote, exitStatus, runs, reqs, tokenReqs, pre, raised, saving, outcome>>
vars == <<now, configFile, due, dueArgs, raw_data, df, csvFile, dropped, loaded,
          app, op, pc, appConfig, autoConfig, page, all_activities, tokenCache, fetchCache,
          remote, exitStatus, runs, reqs, tokenReqs, pre, raised, saving, outcome,
          stamps, paceArg, zone, pageRows, today, max_streak, current_streak, heatmap_data>>
viewVars == <<stamps, paceArg, zone, pageRows, today, max_streak, current_streak, heatmap_data>>

\* None, and an optional value: <<>> or <<v>>
None == <<>>
Some(v) == <<v>>

(***************************************************************************)
(* Bounds                                                                  *)
(***************************************************************************)
MaxDay == 2             \* the clock and the stored timestamps stay within days 0..MaxDay
MaxRecords == 2         \* longest list handed to process_data on its own
MaxDropped == 2         \* most derived columns an older snapshot lacks
MaxFullPages == 1       \* full pages a well-behaved endpoint serves before a short one
MaxRuns == 1            \* script runs (page loads and unattended runs) in one behaviour
MaxStreakDay == 5        \* the streak is computed on activity dates within days 0..MaxStreakDay
MaxHeatShift == 6        \* the heatmap is drawn on day 366 .. 366 + MaxHeatShift (every weekday)
MaxPerDay == 2           \* most activities the heatmap's frame holds on one date
MaxPaceQuarters == 60   \* classify_pace_zone is given 0, 1/4, 2/4, ... up to this many quarters

(***************************************************************************)
(* datetime                                                                *)
(***************************************************************************)
SlotsPerDay == 24 * 2
SlotsPerHour == 60 \div 30

\* days since the epoch -> <<year, month, day>> (proleptic Gregorian), epoch 2024-01-01
EpochShift == 719468 + 19723     \* 0000-03-01 .. 1970-01-01 .. 2024-01-01

DaysFromCivil(y, m, d) ==
    LET yy  == IF m <= 2 THEN y - 1 ELSE y
        era == yy \div 400
        yoe == yy - era * 400
        mp  == (m + 9) % 12
        doy == (153 * mp + 2) \div 5 + d - 1
        doe == yoe * 365 + yoe \div 4 - yoe \div 100 + doy
    IN  era * 146097 + doe - EpochShift

CivilFromDays(z0) ==
    LET z   == z0 + EpochShift
        era == z \div 146097
        doe == z - era * 146097
        yoe == (doe - doe \div 1460 + doe \div 36524 - doe \div 146096) \div 365
        doy == doe - (365 * yoe + yoe \div 4 - yoe \div 100)
        mp  == (5 * doy + 2) \div 153
        d   == doy - (153 * mp + 2) \div 5 + 1
        m   == IF mp < 10 THEN mp + 3 ELSE mp - 9
        y   == yoe + era * 400 + (IF m <= 2 THEN 1 ELSE 0)
    IN  <<y, m, d>>

DateOf(t) == t \div SlotsPerDay                 \* datetime.date()
HourOf(t) == (t % SlotsPerDay) \div SlotsPerHour
MinuteOf(t) == (t % SlotsPerHour) * 30

\* datetime.isoformat(): "YYYY-MM-DDTHH:MM:SS", kept as its numeric fields
isoformat(t) ==
    LET c == CivilFromDays(DateOf(t))
    IN  <<c[1], c[2], c[3], HourOf(t), MinuteOf(t)>>

\* datetime.fromisoformat()
fromisoformat(s) ==
    DaysFromCivil(s[1], s[2], s[3]) * SlotsPerDay + s[4] * SlotsPerHour + s[5] \div 30

\* now.replace(hour=h, minute=0, second=0, microsecond=0)
ReplaceHour(t, h) == DateOf(t) * SlotsPerDay + h * SlotsPerHour

(***************************************************************************)
(* app_config.json                                                         *)
(***************************************************************************)
DefaultGoal == 100      \* load_config, 'monthly_goal': 100

\* dict.get(key), None when the key is absent
Get(dict, key) == IF key \in DOMAIN dict THEN dict[key] ELSE None

load_config ==
    IF configFile # None
    THEN configFile[1]
    ELSE [monthly_goal |-> DefaultGoal, last_update |-> None]

\* the 08:00 boundary taken as strictly passed
should_update_data_strict(config, t) ==
    IF Get(config, "last_update") = None
    THEN TRUE
    ELSE LET last_update == fromisoformat(config["last_update"])
             today_8am   == ReplaceHour(t, 8)
         IN  IF last_update < today_8am /\ today_8am < t
             THEN TRUE
             ELSE IF DateOf(last_update) < DateOf(t)
                  THEN TRUE
                  ELSE FALSE

\* the rule of the calendar date left out
should_update_data_no_date_rule(config, t) ==
    IF Get(config, "last_update") = None
    THEN TRUE
    ELSE LET last_update == fromisoformat(config["last_update"])
             today_8am   == ReplaceHour(t, 8)
         IN  IF last_update < today_8am /\ today_8am <= t
             THEN TRUE
             ELSE FALSE

\* a last_update of 08:00 sharp taken as before the boundary
should_update_data_inclusive(config, t) ==
    IF Get(config, "last_update") = None
    THEN TRUE
    ELSE LET last_update == fromisoformat(config["last_update"])
             today_8am   == ReplaceHour(t, 8)
         IN  IF last_update <= today_8am /\ today_8am <= t
             THEN TRUE
             ELSE IF DateOf(last_update) < DateOf(t)
                  THEN TRUE
                  ELSE FALSE

should_update_data(config, t) ==
    IF Get(config, "last_update") = None
    THEN TRUE
    ELSE LET last_update == fromisoformat(config["last_update"])
             today_8am   == ReplaceHour(t, 8)
         IN  IF last_update < today_8am /\ today_8am <= t
             THEN TRUE
             ELSE IF DateOf(last_update) < DateOf(t)
                  THEN TRUE
                  ELSE FALSE

(***************************************************************************)
(* Numbers: a float is kept as the exact fraction [n, d] in lowest terms   *)
(***************************************************************************)
RECURSIVE Gcd(_, _)
Gcd(a, b) == IF b = 0 THEN a ELSE Gcd(b, a % b)

Rat(n, d) == LET g == Gcd(n, d) IN [n |-> n \div g, d |-> d \div g]
RatZero == [n |-> 0, d |-> 1]
RatDiv(a, b) == Rat(a.n * b.d, a.d * b.n)
RatLt(a, b) == a.n * b.d < b.n * a.d
RatGtZero(a) == a.n > 0

(***************************************************************************)
(* Classification                                                          *)
(***************************************************************************)
\* the first boundary given to the faster zone
classify_pace_zone_inclusive(pace) ==
    IF pace = RatZero THEN "Unknown"
    ELSE IF ~RatLt(Rat(45, 10), pace) THEN "Speed"
    ELSE IF RatLt(pace, Rat(55, 10)) THEN "Tempo"
    ELSE IF RatLt(pace, Rat(65, 10)) THEN "Easy"
    ELSE "Recovery"

classify_pace_zone(pace) ==
    IF pace = RatZero THEN "Unknown"
    ELSE IF RatLt(pace, Rat(45, 10)) THEN "Speed"
    ELSE IF RatLt(pace, Rat(55, 10)) THEN "Tempo"
    ELSE IF RatLt(pace, Rat(65, 10)) THEN "Easy"
    ELSE "Recovery"

classify_time_of_day(hour) ==
    IF 5 <= hour /\ hour < 12 THEN "Morning"
    ELSE IF 12 <= hour /\ hour < 18 THEN "Afternoon"
    ELSE "Evening"

(***************************************************************************)
(* pandas pieces used by process_data and load_data                        *)
(***************************************************************************)
\* A Python value handed to process_data: a list of runs [item, n], or not a list.
\* A list item is a dict (item.val its fields) or a str.
PyList(items) == [type |-> "list", items |-> items]
PyOther(t) == [type |-> t, items |-> <<>>]
DictItems(fields, n) == [kind |-> "dict", val |-> fields, n |-> n]
StrItems(s, n) == [kind |-> "str", val |-> [s |-> s], n |-> n]

\* A DataFrame: column names in order, rows as runs [row, n]
Frame(cols, rows) == [cols |-> cols, rows |-> rows]
EmptyFrame == Frame(<<>>, <<>>)

Ok(fr) == [ok |-> TRUE, err |-> "", df |-> fr]
Raise(e) == [ok |-> FALSE, err |-> e, df |-> EmptyFrame]

Range(f) == {f[i] : i \in DOMAIN f}
InSeq(x, sq) == \E i \in DOMAIN sq : sq[i] = x

\* Timestamp.day_name()
DayNames == <<"Monday", "Tuesday", "Wednesday", "Thursday", "Friday", "Saturday", "Sunday">>
WeekdayIndex(day) == day % 7                    \* 0 = Monday; day 0 is a Monday
day_name(t) == DayNames[WeekdayIndex(DateOf(t)) + 1]

\* Timestamp.isocalendar().week
IsoWeek(day) ==
    LET thursday == day - WeekdayIndex(day) + 3
        y        == CivilFromDays(thursday)[1]
    IN  (thursday - DaysFromCivil(y, 1, 1)) \div 7 + 1

MonthOfDay(day) == CivilFromDays(day)[2]
YearOfDay(day) == CivilFromDays(day)[1]

\* pd.to_datetime on one "YYYY-MM-DDTHH:MM:SS" string: parses, or raises
ValidTimestamp(s) ==
    /\ Len(s) = 5
    /\ s[2] \in 1..12 /\ s[3] \in 1..31 /\ s[4] \in 0..23 /\ s[5] \in {0, 30}
    /\ CivilFromDays(DaysFromCivil(s[1], s[2], s[3])) = <<s[1], s[2], s[3]>>

\* date -> "YYYY-MM-DD" and back
FormatDate(day) == CivilFromDays(day)
ParseDate(s) == DaysFromCivil(s[1], s[2], s[3])

\* float -> decimal text and back (integer part, fraction part over its denominator)
FormatFloat(r) == <<r.n \div r.d, r.n % r.d, r.d>>
ParseFloat(s) == Rat(s[1] * s[3] + s[2], s[3])

(***************************************************************************)
(* process_data                                                            *)
(***************************************************************************)
cols == <<"name", "distance", "moving_time", "start_date_local", "total_elevation_gain",
          "type", "average_heartrate", "max_heartrate", "average_speed", "max_speed">>

CalendarCols == <<"date", "hour", "weekday", "week", "month", "year">>
DerivedCols == CalendarCols \o <<"distance_km", "moving_time_min", "pace", "pace_zone", "time_of_day">>

\* df[c] = g(row) for every row: replaces the column, or appends it
SetCol(fr, c, g(_)) ==
    Frame(IF InSeq(c, fr.cols) THEN fr.cols ELSE Append(fr.cols, c),
          [i \in DOMAIN fr.rows |->
              [row |-> [k \in DOMAIN fr.rows[i].row \cup {c} |->
                           IF k = c THEN g(fr.rows[i].row) ELSE fr.rows[i].row[k]],
               n   |-> fr.rows[i].n]])

\* df[available_cols]
SelectCols(fr, sel) ==
    Frame(sel, [i \in DOMAIN fr.rows |->
                   [row |-> [k \in Range(sel) |-> fr.rows[i].row[k]], n |-> fr.rows[i].n]])

\* the guard of the pace column put on the dividend
PaceOf_guard_moving_time(row) ==
    IF RatGtZero(row["moving_time_min"])
    THEN RatDiv(row["moving_time_min"], row["distance_km"])
    ELSE RatZero

\* the lambda of the pace column
PaceOf(row) ==
    IF RatGtZero(row["distance_km"])
    THEN RatDiv(row["moving_time_min"], row["distance_km"])
    ELSE RatZero

\* pd.DataFrame(list): the columns are the keys of the dicts; a str after a dict has no keys
DataFrameOf(items) ==
    IF items = <<>> THEN Ok(EmptyFrame)
    ELSE IF items[1].kind = "str"
         THEN Ok(Frame(<<"0">>, [i \in DOMAIN items |->
                                    [row |-> [c \in {"0"} |-> items[i].val], n |-> items[i].n]]))
    ELSE IF \E i \in DOMAIN items : items[i].kind = "str"
         THEN Raise("AttributeError")
    ELSE LET keys == UNION {DOMAIN items[i].val : i \in DOMAIN items}
         IN  Ok(Frame(SelectSeq(cols, LAMBDA c : c \in keys),
                      [i \in DOMAIN items |-> [row |-> items[i].val, n |-> items[i].n]]))

process_data(data) ==
    IF data.type # "list" THEN Ok(EmptyFrame)
    ELSE
    LET made == DataFrameOf(data.items) IN
    IF ~made.ok THEN made
    ELSE
    LET available_cols == SelectSeq(cols, LAMBDA c : InSeq(c, made.df.cols))
        df0 == SelectCols(made.df, available_cols)
    IN
    IF ~InSeq("start_date_local", df0.cols) THEN Raise("KeyError")
    ELSE IF \E i \in DOMAIN df0.rows : ~ValidTimestamp(df0.rows[i].row["start_date_local"])
         THEN Raise("ValueError")
    ELSE
    LET df1 == SetCol(df0, "start_date_local", LAMBDA r : fromisoformat(r["start_date_local"]))
        df2 == SetCol(df1, "date", LAMBDA r : DateOf(r["start_date_local"]))
        df3 == SetCol(df2, "hour", LAMBDA r : HourOf(r["start_date_local"]))
        df4 == SetCol(df3, "weekday", LAMBDA r : day_name(r["start_date_local"]))
        df5 == SetCol(df4, "week", LAMBDA r : IsoWeek(DateOf(r["start_date_local"])))
        df6 == SetCol(df5, "month", LAMBDA r : MonthOfDay(DateOf(r["start_date_local"])))
        df7 == SetCol(df6, "year", LAMBDA r : YearOfDay(DateOf(r["start_date_local"])))
    IN
    IF ~InSeq("distance", df7.cols) \/ ~InSeq("moving_time", df7.cols) THEN Raise("KeyError")
    ELSE
    LET df8  == SetCol(df7, "distance_km", LAMBDA r : Rat(r["distance"], 1000))
        df9  == SetCol(df8, "moving_time_min", LAMBDA r : Rat(r["moving_time"], 60))
        df10 == SetCol(df9, "pace", PaceOf)
        df11 == SetCol(df10, "pace_zone", LAMBDA r : classify_pace_zone(r["pace"]))
    IN  Ok(SetCol(df11, "time_of_day", LAMBDA r : classify_time_of_day(r["hour"])))

(***************************************************************************)
(* running_data.csv: DataFrame.to_csv, pd.read_csv and load_data           *)
(***************************************************************************)
\* The file text: the header line and the row lines written so far.
\* Text(<<>>, <<>>) is the zero-byte file open(path, "w") leaves.
Text(header, lines) == [header |-> header, lines |-> lines]
EmptyText == Text(<<>>, <<>>)

FloatCols == {"distance_km", "moving_time_min", "pace"}

FormatCell(c, v) ==
    IF c = "start_date_local" THEN isoformat(v)
    ELSE IF c = "date" THEN FormatDate(v)
    ELSE IF c \in FloatCols THEN FormatFloat(v)
    ELSE v

\* read_csv infers the numeric columns; dates and timestamps stay text
ParseCell(c, s) == IF c \in FloatCols THEN ParseFloat(s) ELSE s

FormatRows(fr) ==
    [i \in DOMAIN fr.rows |->
        [row |-> [k \in DOMAIN fr.rows[i].row |-> FormatCell(k, fr.rows[i].row[k])],
         n   |-> fr.rows[i].n]]

to_csv(fr) == Text(fr.cols, FormatRows(fr))

read_csv(text) ==
    IF text.header = <<>> THEN Raise("EmptyDataError")
    ELSE Ok(Frame(text.header,
                  [i \in DOMAIN text.lines |->
                      [row |-> [k \in DOMAIN text.lines[i].row |->
                                   ParseCell(k, text.lines[i].row[k])],
                       n   |-> text.lines[i].n]]))

\* df[c] = g(row) only when the column is missing
Backfill(fr, c, g(_)) == IF InSeq(c, fr.cols) THEN fr ELSE SetCol(fr, c, g)

\* load_data, the branch taken when the file exists
load_csv(text) ==
    LET rd == read_csv(text) IN
    IF ~rd.ok THEN rd
    ELSE IF ~InSeq("start_date_local", rd.df.cols) THEN Raise("KeyError")
    ELSE
    LET df1 == SetCol(rd.df, "start_date_local", LAMBDA r : fromisoformat(r["start_date_local"]))
        df2 == IF ~InSeq("date", df1.cols)
               THEN SetCol(df1, "date", LAMBDA r : DateOf(r["start_date_local"]))
               ELSE SetCol(df1, "date", LAMBDA r : ParseDate(r["date"]))
        df3 == Backfill(df2, "hour", LAMBDA r : HourOf(r["start_date_local"]))
        df4 == Backfill(df3, "weekday", LAMBDA r : day_name(r["start_date_local"]))
        df5 == Backfill(df4, "week", LAMBDA r : IsoWeek(DateOf(r["start_date_local"])))
        df6 == Backfill(df5, "month", LAMBDA r : MonthOfDay(DateOf(r["start_date_local"])))
        df7 == Backfill(df6, "year", LAMBDA r : YearOfDay(DateOf(r["start_date_local"])))
        df8 == IF ~InSeq("pace_zone", df7.cols) /\ InSeq("pace", df7.cols)
               THEN SetCol(df7, "pace_zone", LAMBDA r : classify_pace_zone(r["pace"]))
               ELSE df7
        df9 == IF ~InSeq("time_of_day", df8.cols) /\ InSeq("hour", df8.cols)
               THEN SetCol(df8, "time_of_day", LAMBDA r : classify_time_of_day(r["hour"]))
               ELSE df8
    IN  Ok(df9)

(***************************************************************************)
(* Scheduler on its own: every stored timestamp against every clock value  *)
(***************************************************************************)
Times == 0 .. (MaxDay + 1) * SlotsPerDay - 1

SchedConfigs ==
    {[monthly_goal |-> DefaultGoal, last_update |-> None]}
    \cup {[monthly_goal |-> DefaultGoal, last_update |-> isoformat(t)] : t \in Times}
    \cup {[last_update |-> isoformat(t)] : t \in {0, SlotsPerDay}}
    \cup {[monthly_goal |-> DefaultGoal]}

SchedFiles == {None} \cup {Some(c) : c \in SchedConfigs}

SyncOff ==
    /\ app = "idle" /\ op = "none" /\ pc = "none"
    /\ appConfig = None /\ autoConfig = None
    /\ page = 0 /\ all_activities = <<>>
    /\ tokenCache = None /\ fetchCache = None
    /\ remote = [runaway |-> FALSE, wild |-> FALSE]
    /\ exitStatus = None
    /\ runs = 0
    /\ reqs = <<>> /\ tokenReqs = <<>>
    /\ pre = None
    /\ raised = "none"
    /\ saving = None
    /\ outcome = "none"

ProcOff ==
    /\ raw_data = None
    /\ df = None
    /\ csvFile = None
    /\ dropped = {}
    /\ loaded = None

\* nothing of the page's own computations has run
ViewOff ==
    /\ stamps = <<>>
    /\ paceArg = None /\ zone = None
    /\ pageRows = <<>> /\ today = 0
    /\ max_streak = None /\ current_streak = None
    /\ heatmap_data = None

InitSched ==
    /\ now \in Times
    /\ configFile \in SchedFiles
    /\ due = None
    /\ dueArgs = None
    /\ ProcOff
    /\ SyncOff
    /\ ViewOff

CheckDue ==
    /\ due = None
    /\ due' = Some(should_update_data(load_config, now))
    /\ dueArgs' = Some([config |-> load_config, now |-> now])
    /\ UNCHANGED <<now, configFile>>
    /\ UNCHANGED procVars
    /\ UNCHANGED syncVars
    /\ UNCHANGED viewVars

NextSched == CheckDue

SpecSched == InitSched /\ [][NextSched]_vars

\* "YYYY-MM-DD" of one timestamp string earlier than that of another
DateBefore(a, b) ==
    \/ a[1] < b[1]
    \/ a[1] = b[1] /\ a[2] < b[2]
    \/ a[1] = b[1] /\ a[2] = b[2] /\ a[3] < b[3]

SameDate(a, b) == a[1] = b[1] /\ a[2] = b[2] /\ a[3] = b[3]

LastUpdateAbsent(config) == "last_update" \notin DOMAIN config \/ config["last_update"] = None

\* last_update < 08:00 of now's day <= now
CrossedEight(last, n) ==
    /\ n[4] >= 8
    /\ \/ DateBefore(last, n)
       \/ SameDate(last, n) /\ last[4] < 8

DueByRule(config, t) ==
    \/ LastUpdateAbsent(config)
    \/ CrossedEight(config["last_update"], isoformat(t))
    \/ DateBefore(config["last_update"], isoformat(t))

\* the three cases of the specification: (last_update, now) as day and half-hour slot
DueExample(lastSlot, nowSlot, config, t) ==
    /\ ~LastUpdateAbsent(config)
    /\ fromisoformat(config["last_update"]) = lastSlot
    /\ t = nowSlot

\* C4: should_update_data is true exactly when last_update is absent, or
\* last_update < 08:00 of now's day <= now, or last_update's date is before now's date;
\* 07:00/09:00 same day is due, 09:00/10:00 same day is not, 23:00/00:30 next day is due
C4_ShouldUpdateIff ==
    due # None =>
        LET config == dueArgs[1].config
            t      == dueArgs[1].now
        IN  /\ due[1] = DueByRule(config, t)
            /\ DueExample(SlotsPerDay + 14, SlotsPerDay + 18, config, t) => due[1] = TRUE
            /\ DueExample(SlotsPerDay + 18, SlotsPerDay + 20, config, t) => due[1] = FALSE
            /\ DueExample(46, SlotsPerDay + 1, config, t) => due[1] = TRUE

\* the 08:00 rule alone decides: same day, stored before 08:00, asked at 08:00 sharp
C4_Witness ==
    /\ due = Some(TRUE)
    /\ ~LastUpdateAbsent(dueArgs[1].config)
    /\ SameDate(dueArgs[1].config["last_update"], isoformat(dueArgs[1].now))
    /\ isoformat(dueArgs[1].now)[4] = 8 /\ isoformat(dueArgs[1].now)[5] = 0

(***************************************************************************)
(* process_data, to_csv and load_data on their own                         *)
(***************************************************************************)
Distances == {0, 1000, 5000}            \* metres
MovingTimes == {0, 270, 1800}           \* seconds
Starts == {<<2024, 1, 1, 7, 0>>, <<2024, 12, 30, 13, 30>>, <<2023, 1, 1, 23, 0>>}

Activity(name, distance, moving_time, start) ==
    [name |-> name, distance |-> distance, moving_time |-> moving_time,
     start_date_local |-> start, type |-> "Run", id |-> 1]

Without(rec, key) == [k \in DOMAIN rec \ {key} |-> rec[k]]

RawRecords ==
    {Activity(<<0, 0>>, d, m, <<2024, 1, 1, 7, 0>>) : d \in Distances, m \in MovingTimes}
    \cup {Activity(<<0, 0>>, 5000, 1800, st) : st \in Starts}
    \cup {Activity(<<0, 0>>, 5000, 1800, <<2024, 13, 1, 7, 0>>)}
    \cup {Without(Activity(<<0, 0>>, 5000, 1800, <<2024, 1, 1, 7, 0>>), k) :
              k \in {"name", "distance", "moving_time", "start_date_local"}}

RawItems == {DictItems(r, 1) : r \in RawRecords} \cup {StrItems("message", 1)}

\* the dicts of one list carry the same keys
SameKeys(items) ==
    \A i, j \in DOMAIN items :
        (items[i].kind = "dict" /\ items[j].kind = "dict") =>
            DOMAIN items[i].val = DOMAIN items[j].val

ProcInputs ==
    {PyOther(t) : t \in {"dict", "NoneType", "str"}}
    \cup {PyList(items) : items \in
            {sq \in UNION {[1..k -> RawItems] : k \in 0..MaxRecords} : SameKeys(sq)}}

DropSets == {S \in SUBSET Range(DerivedCols) : S # {} /\ Cardinality(S) <= MaxDropped}

InitProc ==
    /\ now = 0
    /\ configFile = None
    /\ due = None
    /\ dueArgs = None
    /\ raw_data \in {Some(v) : v \in ProcInputs}
    /\ df = None
    /\ csvFile = None
    /\ dropped = {}
    /\ loaded = None
    /\ SyncOff
    /\ ViewOff

Process ==
    /\ raw_data # None /\ df = None
    /\ df' = Some(process_data(raw_data[1]))
    /\ UNCHANGED <<raw_data, csvFile, dropped, loaded>>
    /\ UNCHANGED schedVars
    /\ UNCHANGED syncVars
    /\ UNCHANGED viewVars

\* df.to_csv(CSV_FILE) of a processed fetch result (a fetch always returns a list)
Save ==
    /\ df # None /\ df[1].ok /\ csvFile = None
    /\ raw_data[1].type = "list"
    /\ csvFile' = Some(to_csv(df[1].df))
    /\ UNCHANGED <<raw_data, df, dropped, loaded>>
    /\ UNCHANGED schedVars
    /\ UNCHANGED syncVars
    /\ UNCHANGED viewVars

\* the snapshot as an older version of the program wrote it: without the columns S
OlderSchema(S) ==
    /\ csvFile # None /\ dropped = {} /\ loaded = None
    /\ S \subseteq Range(csvFile[1].header)
    /\ csvFile' = Some(Text(SelectSeq(csvFile[1].header, LAMBDA c : c \notin S),
                            [i \in DOMAIN csvFile[1].lines |->
                                [row |-> [k \in DOMAIN csvFile[1].lines[i].row \ S |->
                                             csvFile[1].lines[i].row[k]],
                                 n   |-> csvFile[1].lines[i].n]]))
    /\ dropped' = S
    /\ UNCHANGED <<raw_data, df, loaded>>
    /\ UNCHANGED schedVars
    /\ UNCHANGED syncVars
    /\ UNCHANGED viewVars

Load ==
    /\ csvFile # None /\ loaded = None
    /\ loaded' = Some(load_csv(csvFile[1]))
    /\ UNCHANGED <<raw_data, df, csvFile, dropped>>
    /\ UNCHANGED schedVars
    /\ UNCHANGED syncVars
    /\ UNCHANGED viewVars

NextProc ==
    \/ Process
    \/ Save
    \/ \E S \in DropSets : OlderSchema(S)
    \/ Load

SpecProc == InitProc /\ [][NextProc]_vars

(***************************************************************************)
(* The two endpoints                                                       *)
(***************************************************************************)
per_page == 200
PageCap == 100
FetchTtl == 1800 \div 1800      \* ttl=1800 seconds, in half-hour slots
TokenTtl == 3600 \div 1800      \* ttl=3600 seconds

\* a response of the token endpoint
TokenResponses ==
    {[status |-> st, body |-> b] : st \in {"ok", "error"}, b \in {"token", "no_token", "nonjson"}}
    \cup {[status |-> "transport", body |-> "none"]}

\* the status of the response left unchecked
get_access_token_unchecked(resp) ==
    IF resp.status = "transport" THEN Raise("ConnectionError")
    ELSE IF resp.body = "nonjson" THEN Raise("JSONDecodeError")
    ELSE IF resp.body # "token" THEN Raise("KeyError")
    ELSE Ok(EmptyFrame)

\* requests.post, raise_for_status, res.json()['access_token']
get_access_token(resp) ==
    IF resp.status = "transport" THEN Raise("ConnectionError")
    ELSE IF resp.status # "ok" THEN Raise("HTTPError")
    ELSE IF resp.body = "nonjson" THEN Raise("JSONDecodeError")
    ELSE IF resp.body # "token" THEN Raise("KeyError")
    ELSE Ok(EmptyFrame)

\* the body of a response of the activities endpoint, as res.json() returns it
JsonList(items) == [json |-> TRUE, type |-> "list", items |-> items]
JsonDict(keys) == [json |-> TRUE, type |-> "dict",
                   items |-> [i \in DOMAIN keys |-> StrItems(keys[i], 1)]]
NonJson == [json |-> FALSE, type |-> "none", items |-> <<>>]

RECURSIVE SumN(_)
SumN(items) == IF items = <<>> THEN 0 ELSE items[1].n + SumN(Tail(items))

PyLen(data) == SumN(data.items)         \* len(data)
Falsy(data) == PyLen(data) = 0          \* not data

\* the n activities of page p as the endpoint serves them at time g
RemotePage(g, p, n) ==
    IF n = 0 THEN <<>>
    ELSE <<DictItems(Activity(<<g, p>>, 5000, 1800, <<2024, 1, 1, 7, 0>>), n)>>

PageSizes(p) == {0, per_page - 1} \cup (IF p <= MaxFullPages THEN {per_page} ELSE {})

ErrorBodies == {JsonList(<<>>), JsonDict(<<"message", "errors">>), NonJson}

\* what a request for page p can come back with; a runaway endpoint serves full pages forever
PageResponses(g, p, runaway) ==
    IF runaway
    THEN {[status |-> "ok", body |-> JsonList(RemotePage(g, p, per_page))]}
    ELSE {[status |-> "ok", body |-> JsonList(RemotePage(g, p, n))] : n \in PageSizes(p)}
         \cup {[status |-> "error", body |-> b] : b \in ErrorBodies}
         \cup {[status |-> "transport", body |-> NonJson]}

(***************************************************************************)
(* fetch_strava_data: one turn of the while loop                           *)
(***************************************************************************)
Turn(r, d, pg, acc) == [raised |-> r, done |-> d, page |-> pg, all |-> acc]

\* the cap taken one page late
fetch_page_late_cap(pg, acc, resp) ==
    IF resp.status = "transport" THEN Turn(TRUE, FALSE, pg, acc)
    ELSE IF ~resp.body.json THEN Turn(TRUE, FALSE, pg, acc)
    ELSE LET data == resp.body IN
         IF Falsy(data) THEN Turn(FALSE, TRUE, pg, acc)
         ELSE LET extended == acc \o data.items IN
              IF PyLen(data) < per_page THEN Turn(FALSE, TRUE, pg, extended)
              ELSE IF pg > PageCap THEN Turn(FALSE, TRUE, pg + 1, extended)
              ELSE Turn(FALSE, FALSE, pg + 1, extended)

fetch_page(pg, acc, resp) ==
    IF resp.status = "transport" THEN Turn(TRUE, FALSE, pg, acc)         \* requests.get raises
    ELSE IF ~resp.body.json THEN Turn(TRUE, FALSE, pg, acc)              \* res.json() raises
    ELSE LET data == resp.body IN
         IF Falsy(data) THEN Turn(FALSE, TRUE, pg, acc)
         ELSE LET extended == acc \o data.items IN
              IF PyLen(data) < per_page THEN Turn(FALSE, TRUE, pg, extended)
              ELSE IF pg + 1 > PageCap THEN Turn(FALSE, TRUE, pg + 1, extended)
              ELSE Turn(FALSE, FALSE, pg + 1, extended)

(***************************************************************************)
(* The synchronisation: app.py main() and update_data.py main()            *)
(***************************************************************************)
IsAppOp == op \in {"manual", "auto", "load"}

CacheValid(entry, ttl) == entry # None /\ now - entry[1].at < ttl

WithKey(dict, key, v) == [k \in DOMAIN dict \cup {key} |-> IF k = key THEN v ELSE dict[k]]

Goals == {DefaultGoal, DefaultGoal + 10}

\* the clock values the runs are started and timestamped at:
\* 07:00, 07:30 and 08:00 of day 0, 07:00 and 08:00 of day 1
ClockTimes == {14, 15, 16, SlotsPerDay + 14, SlotsPerDay + 16}

\* what an earlier successful automatic sync (the day before, at 08:00) left behind
EarlierFetch == PyList(RemotePage(0 - SlotsPerDay + 16, 1, per_page)
                       \o RemotePage(0 - SlotsPerDay + 16, 2, per_page - 1))
EarlierCsv == to_csv(process_data(EarlierFetch).df)
EarlierConfig == [monthly_goal |-> DefaultGoal, last_update |-> isoformat(0 - SlotsPerDay + 16)]

\* the two files when the first modelled run starts: a first run, or a later one
PriorFiles == {[csv |-> None, config |-> None],
               [csv |-> Some(EarlierCsv), config |-> Some(EarlierConfig)]}

\* a failing token request and a failing page request, as the caller of the API sees them
TokenFailure(resp) == resp.status # "ok" \/ resp.body # "token"
PageFailure(resp) == resp.status # "ok"

SyncStart(wild) ==
    /\ \E f \in PriorFiles : csvFile = f.csv /\ configFile = f.config
    /\ due = None
    /\ dueArgs = None
    /\ raw_data = None /\ df = None /\ dropped = {} /\ loaded = None
    /\ app = "idle" /\ op = "none" /\ pc = "none"
    /\ appConfig = None /\ autoConfig = None
    /\ page = 0 /\ all_activities = <<>>
    /\ tokenCache = None /\ fetchCache = None
    /\ remote = [runaway |-> FALSE, wild |-> wild]
    /\ exitStatus = None
    /\ runs = 0
    /\ reqs = <<>> /\ tokenReqs = <<>>
    /\ pre = None
    /\ raised = "none"
    /\ saving = None
    /\ outcome = "none"
    /\ ViewOff

Init ==
    /\ now = 14
    /\ SyncStart(FALSE)

\* an operation starts: its locals are fresh, the history restarts
StartOp(kind, first) ==
    /\ op' = kind /\ pc' = first
    /\ pre' = Some([csv |-> csvFile, config |-> configFile])
    /\ reqs' = <<>> /\ tokenReqs' = <<>> /\ raised' = "none" /\ saving' = None
    /\ outcome' = "running"
    /\ raw_data' = None /\ df' = None /\ page' = 0 /\ all_activities' = <<>>

\* the except branch of update_data.py ending the run with status 0
FailOp_status_zero(step) ==
    /\ pc' = "done"
    /\ outcome' = "failed"
    /\ raised' = step
    /\ exitStatus' = IF op = "unattended" THEN Some(0) ELSE exitStatus
    /\ UNCHANGED <<op, app, raw_data, df, page, all_activities>>

\* an exception leaves the operation
FailOp(step) ==
    /\ pc' = "done"
    /\ outcome' = "failed"
    /\ raised' = step
    /\ exitStatus' = IF op = "unattended" THEN Some(1) ELSE exitStatus
    /\ UNCHANGED <<op, app, raw_data, df, page, all_activities>>

\* time passes between two script runs
Tick ==
    /\ app = "idle" /\ op = "none"
    /\ \E t \in ClockTimes :
          /\ t > now
          /\ \A u \in ClockTimes : u > now => t <= u
          /\ now' = t
    /\ UNCHANGED <<configFile, due, dueArgs>>
    /\ UNCHANGED procVars
    /\ UNCHANGED syncVars
    /\ UNCHANGED viewVars

\* main() of app.py starts a script run
AppRun ==
    /\ app = "idle" /\ op = "none" /\ runs < MaxRuns
    /\ app' = "button"
    /\ appConfig' = Some(load_config)
    /\ runs' = runs + 1
    /\ UNCHANGED <<now, configFile, due, dueArgs>>
    /\ UNCHANGED procVars
    /\ UNCHANGED <<op, pc, autoConfig, page, all_activities, tokenCache, fetchCache, remote,
                   exitStatus, reqs, tokenReqs, pre, raised, saving, outcome>>
    /\ UNCHANGED viewVars

\* the "Sync Strava Data" button: update_data() when clicked
AppButton(click) ==
    /\ app = "button" /\ op = "none"
    /\ IF click
       THEN /\ StartOp("manual", "fetch")
            /\ app' = app
       ELSE /\ app' = "goal"
            /\ UNCHANGED <<op, pc, pre, reqs, tokenReqs, raised, saving, outcome,
                           raw_data, df, page, all_activities>>
    /\ UNCHANGED <<now, configFile, due, dueArgs, csvFile, dropped, loaded>>
    /\ UNCHANGED <<appConfig, autoConfig, tokenCache, fetchCache, remote, exitStatus, runs>>
    /\ UNCHANGED viewVars

\* the monthly goal input: saved when it differs from the stored goal
AppGoal(monthly_goal) ==
    /\ app = "goal" /\ op = "none"
    /\ app' = "auto"
    /\ LET config == appConfig[1]
           stored == IF "monthly_goal" \in DOMAIN config THEN config["monthly_goal"] ELSE DefaultGoal
       IN  IF monthly_goal # stored
           THEN /\ appConfig' = Some(WithKey(config, "monthly_goal", monthly_goal))
                /\ configFile' = Some(WithKey(config, "monthly_goal", monthly_goal))
           ELSE UNCHANGED <<appConfig, configFile>>
    /\ UNCHANGED <<now, due, dueArgs>>
    /\ UNCHANGED procVars
    /\ UNCHANGED <<op, pc, autoConfig, page, all_activities, tokenCache, fetchCache, remote,
                   exitStatus, runs, reqs, tokenReqs, pre, raised, saving, outcome>>
    /\ UNCHANGED viewVars

\* auto_update_if_needed up to the decision
AppAuto ==
    /\ app = "auto" /\ op = "none"
    /\ LET config == load_config IN
       /\ due' = Some(should_update_data(config, now))
       /\ dueArgs' = Some([config |-> config, now |-> now])
       /\ IF should_update_data(config, now)
          THEN /\ StartOp("auto", "fetch")
               /\ autoConfig' = Some(config)
               /\ app' = app
          ELSE /\ app' = "load"
               /\ UNCHANGED <<op, pc, pre, reqs, tokenReqs, raised, saving, outcome,
                              raw_data, df, page, all_activities, autoConfig>>
    /\ UNCHANGED <<now, configFile, csvFile, dropped, loaded>>
    /\ UNCHANGED <<appConfig, tokenCache, fetchCache, remote, exitStatus, runs>>
    /\ UNCHANGED viewVars

\* load_data up to the decision: read the file when it exists, else fetch
AppLoad ==
    /\ app = "load" /\ op = "none"
    /\ IF csvFile # None
       THEN /\ loaded' = Some(load_csv(csvFile[1]))
            /\ app' = "render"
            /\ UNCHANGED <<op, pc, pre, reqs, tokenReqs, raised, saving, outcome,
                           raw_data, df, page, all_activities>>
       ELSE /\ StartOp("load", "fetch")
            /\ UNCHANGED <<app, loaded>>
    /\ UNCHANGED <<now, configFile, due, dueArgs, csvFile, dropped>>
    /\ UNCHANGED <<appConfig, autoConfig, tokenCache, fetchCache, remote, exitStatus, runs>>
    /\ UNCHANGED viewVars

\* the rest of main() reads the loaded frame; the script run ends
AppEnd ==
    /\ app = "render" /\ op = "none"
    /\ app' = "idle"
    /\ loaded' = None /\ due' = None /\ dueArgs' = None
    /\ appConfig' = None /\ autoConfig' = None
    /\ UNCHANGED <<now, configFile, raw_data, df, csvFile, dropped>>
    /\ UNCHANGED <<op, pc, page, all_activities, tokenCache, fetchCache, remote,
                   exitStatus, runs, reqs, tokenReqs, pre, raised, saving, outcome>>
    /\ UNCHANGED viewVars

\* main() of update_data.py up to the credentials check
UnattendedRun(credentials) ==
    /\ app = "idle" /\ op = "none" /\ runs < MaxRuns
    /\ runs' = runs + 1
    /\ StartOp("unattended", IF credentials THEN "token" ELSE "done")
    /\ exitStatus' = IF credentials THEN None ELSE Some(1)
    /\ UNCHANGED <<now, configFile, due, dueArgs, csvFile, dropped, loaded>>
    /\ UNCHANGED <<app, appConfig, autoConfig, tokenCache, fetchCache, remote>>
    /\ UNCHANGED viewVars

\* fetch_strava_data() of app.py is memoized: a live entry is returned without any request
FetchStart ==
    /\ pc = "fetch"
    /\ IF CacheValid(fetchCache, FetchTtl)
       THEN /\ raw_data' = Some(fetchCache[1].value)
            /\ pc' = "process"
       ELSE /\ pc' = "token"
            /\ UNCHANGED raw_data
    /\ UNCHANGED <<now, configFile, due, dueArgs, df, csvFile, dropped, loaded>>
    /\ UNCHANGED <<app, op, appConfig, autoConfig, page, all_activities, tokenCache, fetchCache,
                   remote, exitStatus, runs, reqs, tokenReqs, pre, raised, saving, outcome>>
    /\ UNCHANGED viewVars

\* get_access_token: memoized in app.py, a request each time in update_data.py;
\* then the fetch loop starts at page 1 against the endpoint as it is now
TokenStep(resp, runaway) ==
    /\ pc = "token"
    /\ IF IsAppOp /\ CacheValid(tokenCache, TokenTtl)
       THEN /\ pc' = "page" /\ page' = 1 /\ all_activities' = <<>>
            /\ remote' = [remote EXCEPT !.runaway = runaway]
            /\ UNCHANGED <<tokenReqs, tokenCache, op, outcome, raised, app, exitStatus, raw_data, df>>
       ELSE /\ tokenReqs' = Append(tokenReqs, IF TokenFailure(resp) THEN "failed" ELSE "ok")
            /\ IF get_access_token(resp).ok
               THEN /\ pc' = "page" /\ page' = 1 /\ all_activities' = <<>>
                    /\ remote' = [remote EXCEPT !.runaway = runaway]
                    /\ tokenCache' = IF IsAppOp THEN Some([at |-> now]) ELSE tokenCache
                    /\ UNCHANGED <<op, outcome, raised, app, exitStatus, raw_data, df>>
               ELSE /\ FailOp("token")
                    /\ UNCHANGED <<remote, tokenCache>>
    /\ UNCHANGED <<now, configFile, due, dueArgs, csvFile, dropped, loaded>>
    /\ UNCHANGED <<appConfig, autoConfig, fetchCache, runs, reqs, pre, saving>>
    /\ UNCHANGED viewVars

\* one turn of the loop of fetch_strava_data; when the loop ends the list is returned
\* (and memoized in app.py)
PageStep(resp) ==
    /\ pc = "page"
    /\ reqs' = Append(reqs, [page |-> page, ok |-> ~PageFailure(resp),
                             len |-> IF resp.body.json THEN PyLen(resp.body) ELSE 0 - 1])
    /\ LET turn == fetch_page(page, all_activities, resp) IN
       IF turn.raised
       THEN /\ FailOp("page")
            /\ UNCHANGED fetchCache
       ELSE IF turn.done
       THEN /\ raw_data' = Some(PyList(turn.all))
            /\ page' = turn.page /\ all_activities' = turn.all
            /\ fetchCache' = IF IsAppOp
                             THEN Some([value |-> PyList(turn.all), at |-> now])
                             ELSE fetchCache
            /\ pc' = "process"
            /\ UNCHANGED <<op, outcome, raised, app, exitStatus, df>>
       ELSE /\ page' = turn.page /\ all_activities' = turn.all
            /\ UNCHANGED <<pc, op, outcome, raised, app, exitStatus, raw_data, df, fetchCache>>
    /\ UNCHANGED <<now, configFile, due, dueArgs, csvFile, dropped, loaded>>
    /\ UNCHANGED <<appConfig, autoConfig, tokenCache, remote, runs, tokenReqs, pre, saving>>
    /\ UNCHANGED viewVars

\* df = process_data(raw_data)
ProcessStep ==
    /\ pc = "process"
    /\ LET res == process_data(raw_data[1]) IN
       IF res.ok
       THEN /\ df' = Some(res)
            /\ pc' = "open"
            /\ UNCHANGED <<op, outcome, raised, app, exitStatus, raw_data, page, all_activities>>
       ELSE FailOp("process")
    /\ UNCHANGED <<now, configFile, due, dueArgs, csvFile, dropped, loaded>>
    /\ UNCHANGED <<appConfig, autoConfig, tokenCache, fetchCache, remote, runs, reqs, tokenReqs,
                   pre, saving>>
    /\ UNCHANGED viewVars

\* df.to_csv(CSV_FILE): the file is opened for writing, which empties it, or open raises
OpenStep(ok) ==
    /\ pc = "open"
    /\ IF ok
       THEN /\ csvFile' = Some(EmptyText)
            /\ saving' = Some(to_csv(df[1].df))
            /\ pc' = "write"
            /\ UNCHANGED <<op, outcome, raised, app, exitStatus, raw_data, df, page, all_activities>>
       ELSE /\ FailOp("open")
            /\ UNCHANGED <<csvFile, saving>>
    /\ UNCHANGED <<now, configFile, due, dueArgs, dropped, loaded>>
    /\ UNCHANGED <<appConfig, autoConfig, tokenCache, fetchCache, remote, runs, reqs, tokenReqs, pre>>
    /\ UNCHANGED viewVars

\* the text as it stands after the next piece reached the file: the header, then the
\* first run of rows, then the rest
NextPiece(cur, full) ==
    IF cur.header = <<>> THEN Text(full.header, <<>>)
    ELSE IF cur.lines = <<>> THEN Text(full.header, SubSeq(full.lines, 1, 1))
    ELSE full

\* ... then the header and the rows reach the file piece by piece, or a write raises
WriteStep(ok) ==
    /\ pc = "write"
    /\ csvFile[1] # saving[1]
    /\ IF ok
       THEN /\ csvFile' = Some(NextPiece(csvFile[1], saving[1]))
            /\ UNCHANGED <<pc, op, outcome, raised, app, exitStatus, raw_data, df, page,
                           all_activities>>
       ELSE /\ FailOp("write")
            /\ UNCHANGED csvFile
    /\ UNCHANGED <<now, configFile, due, dueArgs, dropped, loaded>>
    /\ UNCHANGED <<appConfig, autoConfig, tokenCache, fetchCache, remote, runs, reqs, tokenReqs,
                   pre, saving>>
    /\ UNCHANGED viewVars

\* ... and to_csv returns; load_data returns the frame it wrote
CloseStep ==
    /\ pc = "write"
    /\ csvFile[1] = saving[1]
    /\ IF op = "load"
       THEN /\ pc' = "done"
            /\ outcome' = "success"
            /\ loaded' = df
       ELSE /\ pc' = "config"
            /\ UNCHANGED <<outcome, loaded>>
    /\ UNCHANGED <<now, configFile, due, dueArgs, raw_data, df, csvFile, dropped>>
    /\ UNCHANGED <<app, op, appConfig, autoConfig, page, all_activities, tokenCache, fetchCache,
                   remote, exitStatus, runs, reqs, tokenReqs, pre, raised, saving>>
    /\ UNCHANGED viewVars

\* the config the operation stamps: update_data and update_data.py re-read the file,
\* auto_update_if_needed keeps the one it decided on
ConfigToStamp ==
    CASE op = "auto" -> autoConfig[1]
      [] op = "manual" -> load_config
      [] OTHER -> IF configFile # None THEN configFile[1] ELSE [k \in {} |-> None]

\* config['last_update'] = datetime.now().isoformat(), the file is written, the memoized
\* values are dropped (app.py), and the operation returns
ConfigStep(ok) ==
    /\ pc = "config"
    /\ IF ok
       THEN /\ configFile' = Some(WithKey(ConfigToStamp, "last_update", isoformat(now)))
            /\ pc' = "done"
            /\ outcome' = "success"
            /\ tokenCache' = IF IsAppOp THEN None ELSE tokenCache
            /\ fetchCache' = IF IsAppOp THEN None ELSE fetchCache
            /\ exitStatus' = IF op = "unattended" THEN Some(0) ELSE exitStatus
            /\ UNCHANGED <<op, app, raised, raw_data, df, page, all_activities>>
       ELSE /\ FailOp("config")
            /\ UNCHANGED <<configFile, tokenCache, fetchCache>>
    /\ UNCHANGED <<now, due, dueArgs, csvFile, dropped, loaded>>
    /\ UNCHANGED <<appConfig, autoConfig, remote, runs, reqs, tokenReqs, pre, saving>>
    /\ UNCHANGED viewVars

\* control returns to the caller of the operation: update_data reruns the script on
\* success, update_data and auto_update_if_needed swallow an exception, load_data lets it
\* end the script run, update_data.py exits
Return ==
    /\ pc = "done"
    /\ op' = "none" /\ pc' = "none"
    /\ app' = CASE op = "manual" -> "goal"
                [] op = "auto" -> "load"
                [] op = "load" /\ outcome = "success" -> "render"
                [] OTHER -> "idle"
    /\ appConfig' = CASE op = "manual" /\ outcome = "success" -> Some(load_config)
                      [] op \in {"manual", "auto"} -> appConfig
                      [] OTHER -> None
    /\ autoConfig' = IF op \in {"manual", "auto"} THEN autoConfig ELSE None
    /\ due' = IF op \in {"manual", "auto"} THEN due ELSE None
    /\ dueArgs' = IF op \in {"manual", "auto"} THEN dueArgs ELSE None
    /\ exitStatus' = None
    /\ pre' = None /\ reqs' = <<>> /\ tokenReqs' = <<>> /\ raised' = "none" /\ saving' = None
    /\ outcome' = "none"
    /\ raw_data' = None /\ df' = None /\ page' = 0 /\ all_activities' = <<>>
    /\ UNCHANGED <<now, configFile, csvFile, dropped, loaded>>
    /\ UNCHANGED <<tokenCache, fetchCache, remote, runs>>
    /\ UNCHANGED viewVars

\* the process dies while it writes its files; what it memoized dies with it
Crash ==
    /\ pc \in {"write", "config"}
    /\ op' = "none" /\ pc' = "none"
    /\ app' = "idle"
    /\ appConfig' = None /\ autoConfig' = None
    /\ due' = None /\ dueArgs' = None
    /\ tokenCache' = IF IsAppOp THEN None ELSE tokenCache
    /\ fetchCache' = IF IsAppOp THEN None ELSE fetchCache
    /\ exitStatus' = None
    /\ pre' = None /\ reqs' = <<>> /\ tokenReqs' = <<>> /\ raised' = "none" /\ saving' = None
    /\ outcome' = "none"
    /\ raw_data' = None /\ df' = None /\ page' = 0 /\ all_activities' = <<>>
    /\ UNCHANGED <<now, configFile, csvFile, dropped, loaded>>
    /\ UNCHANGED <<remote, runs>>
    /\ UNCHANGED viewVars

Next ==
    \/ Tick
    \/ AppRun
    \/ \E click \in BOOLEAN : AppButton(click)
    \/ \E g \in Goals : AppGoal(g)
    \/ AppAuto
    \/ AppLoad
    \/ AppEnd
    \/ \E credentials \in BOOLEAN : UnattendedRun(credentials)
    \/ FetchStart
    \/ \E resp \in TokenResponses, runaway \in {FALSE, remote.wild} : TokenStep(resp, runaway)
    \/ \E resp \in PageResponses(now, page, remote.runaway) : PageStep(resp)
    \/ ProcessStep
    \/ \E ok \in BOOLEAN : OpenStep(ok)
    \/ \E ok \in BOOLEAN : WriteStep(ok)
    \/ CloseStep
    \/ \E ok \in BOOLEAN : ConfigStep(ok)
    \/ Return
    \/ Crash

Spec == Init /\ [][Next]_vars

\* The unattended run against an endpoint that may serve full pages forever. Every
\* request returns, so a turn of the fetch loop that can be taken is taken.
InitFetch ==
    /\ now = 14
    /\ SyncStart(TRUE)

NextFetch ==
    \/ \E credentials \in BOOLEAN : UnattendedRun(credentials)
    \/ \E resp \in TokenResponses, runaway \in {FALSE, remote.wild} : TokenStep(resp, runaway)
    \/ \E resp \in PageResponses(now, page, remote.runaway) : PageStep(resp)
    \/ ProcessStep
    \/ \E ok \in BOOLEAN : OpenStep(ok)
    \/ \E ok \in BOOLEAN : WriteStep(ok)
    \/ CloseStep
    \/ \E ok \in BOOLEAN : ConfigStep(ok)
    \/ Return

SpecFetch ==
    /\ InitFetch
    /\ [][NextFetch]_vars
    /\ WF_vars(\E resp \in PageResponses(now, page, remote.runaway) : PageStep(resp))

(***************************************************************************)
(* Properties of the synchronisation                                       *)
(***************************************************************************)
PageFailed == \E i \in DOMAIN reqs : ~reqs[i].ok
TokenFailed == \E i \in DOMAIN tokenReqs : tokenReqs[i] = "failed"
LastUpdateOf(file) == IF file = None THEN None ELSE Get(file[1], "last_update")

\* what load_data returns when it reads the file as it stands
Observed(file) == IF file = None THEN None ELSE Some(load_csv(file[1]))

\* C1: once a sync in which a page request failed has ended, the previously persisted
\* dataset is as it was before the sync
C1_FailedPageKeepsDataset ==
    (pre # None /\ pre[1].csv # None /\ PageFailed /\ pc = "done") => csvFile = pre[1].csv

\* C2: last_update changes only in a sync that succeeded as a whole; when the token
\* exchange, a page request, processing or the dataset write failed it keeps its value
C2_LastUpdateOnlyOnSuccess ==
    pre # None =>
        /\ (TokenFailed \/ PageFailed \/ raised \in {"token", "page", "process", "open", "write"})
              => LastUpdateOf(configFile) = LastUpdateOf(pre[1].config)
        /\ LastUpdateOf(configFile) # LastUpdateOf(pre[1].config) => outcome = "success"

\* C3: when a page request ended in an HTTP or transport error, fetch_strava_data
\* returns no list to its caller
C3_PageErrorFailsFetch ==
    PageFailed => raw_data = None

\* C5: the pages are requested one at a time as 1, 2, 3, ..., no page is requested
\* after one that came back empty or short, never more than 100 are requested, and the
\* loop ends
C5_FetchBounded ==
    /\ [](/\ \A i \in DOMAIN reqs : reqs[i].page = i
          /\ \A i \in DOMAIN reqs : i < Len(reqs) => reqs[i].len >= per_page
          /\ Len(reqs) <= PageCap)
    /\ (pc = "page") ~> (pc # "page")

\* the cap ended the loop: 100 full pages were requested and the list was returned
C5_Witness ==
    /\ Len(reqs) = PageCap
    /\ reqs[PageCap].len = per_page
    /\ raw_data # None /\ PyLen(raw_data[1]) = PageCap * per_page

\* C6: after a failed token exchange the sync requests no page and leaves both files
\* as they were
C6_TokenFailureStopsSync ==
    (pre # None /\ TokenFailed) =>
        /\ reqs = <<>>
        /\ pc = "done" /\ outcome = "failed"
        /\ csvFile = pre[1].csv
        /\ configFile = pre[1].config

C6_Witness ==
    /\ TokenFailed /\ op = "auto" /\ pc = "done"
    /\ pre # None /\ pre[1].csv # None /\ pre[1].config # None

\* C7: while a sync runs, load_data sees the complete old snapshot or the complete new one
C7_SaveAtomic ==
    pre # None =>
        \/ Observed(csvFile) = Observed(pre[1].csv)
        \/ saving # None /\ Observed(csvFile) = Observed(saving)

(***************************************************************************)
(* Properties of process_data, to_csv and load_data                        *)
(***************************************************************************)
Processed == df # None /\ df[1].ok
ProcessedRows == IF Processed THEN Range(df[1].df.rows) ELSE {}
IsNumber(r) == r.d > 0

\* the derived columns of the loaded frame are those process_data computed
SameDerived(S) ==
    /\ loaded[1].ok
    /\ \A c \in S : InSeq(c, loaded[1].df.cols)
    /\ DOMAIN loaded[1].df.rows = DOMAIN df[1].df.rows
    /\ \A i \in DOMAIN df[1].df.rows : \A c \in S :
           loaded[1].df.rows[i].row[c] = df[1].df.rows[i].row[c]

\* C8: load(save(process(raw))) has the same derived columns as process(raw),
\* also when the stored snapshot lacks some of the derived columns
C8_RoundTripWithBackfill ==
    loaded # None => SameDerived(Range(DerivedCols))

RoundTripFullSchema == (loaded # None /\ dropped = {}) => SameDerived(Range(DerivedCols))

\* C9 as stated: in every processed record pace is a number, and pace = 0 exactly
\* when distance_km = 0
C9_PaceZeroIffDistanceZero ==
    \A r \in ProcessedRows :
        /\ IsNumber(r.row["pace"])
        /\ (r.row["pace"] = RatZero) <=> (r.row["distance_km"] = RatZero)

\* C9 amended: pace is a number; distance_km = 0 gives pace = 0; pace = 0 only
\* when distance_km = 0 or moving_time = 0
C9_PaceZeroIffDistanceOrTimeZero ==
    \A r \in ProcessedRows :
        /\ IsNumber(r.row["pace"])
        /\ (r.row["pace"] = RatZero) <=>
               (r.row["distance_km"] = RatZero \/ r.row["moving_time"] = 0)

C9_Witness ==
    /\ \E r \in ProcessedRows :
           r.row["distance"] = 0 /\ r.row["moving_time"] > 0 /\ r.row["pace"] = RatZero
    /\ \E r \in ProcessedRows :
           r.row["distance"] > 0 /\ r.row["moving_time"] = 0 /\ r.row["pace"] = RatZero

\* C10: an empty list and a value that is not a list both give an empty dataset, no error
C10_EmptyInputGivesEmptyDataset ==
    (df # None /\ (raw_data[1].type # "list" \/ raw_data[1].items = <<>>)) =>
        (df[1].ok /\ df[1].df.rows = <<>>)

\* a non-empty list of dicts whose timestamps, where present, are well formed
ListOfRecords(data) ==
    /\ data.type = "list" /\ data.items # <<>>
    /\ \A i \in DOMAIN data.items :
          /\ data.items[i].kind = "dict"
          /\ "start_date_local" \in DOMAIN data.items[i].val
                => ValidTimestamp(data.items[i].val["start_date_local"])

\* C11: whatever whitelisted fields the records lack, process_data returns a frame; its
\* raw columns are the whitelisted fields the records carry, and no others
C11_MissingFieldsOmitted ==
    (df # None /\ ListOfRecords(raw_data[1])) =>
        /\ df[1].ok
        /\ Range(df[1].df.cols) \ Range(DerivedCols)
              = Range(cols) \cap DOMAIN raw_data[1].items[1].val

(***************************************************************************)
(* classify_pace_zone on its own                                           *)
(***************************************************************************)
Paces == {Rat(k, 4) : k \in 0 .. MaxPaceQuarters}

ViewIdle ==
    /\ now = 0 /\ configFile = None /\ due = None /\ dueArgs = None
    /\ ProcOff
    /\ SyncOff

InitZone ==
    /\ ViewIdle
    /\ stamps = <<>>
    /\ paceArg \in {Some(p) : p \in Paces}
    /\ zone = None
    /\ pageRows = <<>> /\ today = 0
    /\ max_streak = None /\ current_streak = None
    /\ heatmap_data = None

Classify ==
    /\ paceArg # None /\ zone = None
    /\ zone' = Some(classify_pace_zone(paceArg[1]))
    /\ UNCHANGED <<stamps, paceArg, pageRows, today, max_streak, current_streak, heatmap_data>>
    /\ UNCHANGED schedVars
    /\ UNCHANGED procVars
    /\ UNCHANGED syncVars

NextZone == Classify

SpecZone == InitZone /\ [][NextZone]_vars

\* p < q, p <= q on the fractions a/b
Below(p, a, b) == p.n * b < a * p.d
AtLeast(p, a, b) == ~Below(p, a, b)

\* C12: every pace >= 0 gets exactly the zone of its interval: 0 Unknown, (0, 4.5) Speed,
\* [4.5, 5.5) Tempo, [5.5, 6.5) Easy, [6.5, ..) Recovery
C12_PaceZonePartition ==
    zone # None =>
        LET p == paceArg[1] IN
        /\ zone[1] \in {"Unknown", "Speed", "Tempo", "Easy", "Recovery"}
        /\ zone[1] = "Unknown"  <=> p.n = 0
        /\ zone[1] = "Speed"    <=> (p.n > 0 /\ Below(p, 9, 2))
        /\ zone[1] = "Tempo"    <=> (AtLeast(p, 9, 2) /\ Below(p, 11, 2))
        /\ zone[1] = "Easy"     <=> (AtLeast(p, 11, 2) /\ Below(p, 13, 2))
        /\ zone[1] = "Recovery" <=> AtLeast(p, 13, 2)

\* the boundary 4.5 went to the slower zone
C12_Witness ==
    /\ paceArg = Some(Rat(9, 2))
    /\ zone = Some("Tempo")

(***************************************************************************)
(* The running streaks of main()                                           *)
(***************************************************************************)
Max(a, b) == IF a >= b THEN a ELSE b

\* sorted(...) of a set of day numbers
RECURSIVE Sorted(_)
Sorted(S) ==
    IF S = {} THEN <<>>
    ELSE LET m == CHOOSE x \in S : \A y \in S : x <= y
         IN  <<m>> \o Sorted(S \ {m})

\* one row of the frame the page shows
RunRow(day, km) == [date |-> day, distance_km |-> km]

\* sorted(df['date'].unique())
UniqueDates(fr) == Sorted({fr[i].date : i \in DOMAIN fr})

\* for i in range(1, len(dates)): from the i-th date (counted from 1) on
RECURSIVE StreakLoop(_, _, _, _)
StreakLoop(dates, i, best, temp_streak) ==
    IF i > Len(dates) THEN [max_streak |-> best, temp_streak |-> temp_streak]
    ELSE IF dates[i] - dates[i - 1] = 1
         THEN StreakLoop(dates, i + 1, best, temp_streak + 1)
         ELSE StreakLoop(dates, i + 1, Max(best, temp_streak), 1)

\* max_streak after the loop and the max(...) that follows it
LongestStreak(dates) ==
    LET after == StreakLoop(dates, 2, 0, 1)
    IN  Max(after.max_streak, after.temp_streak)

\* for i in range(len(dates)-1, 0, -1): counts the links of the run that ends the list
RECURSIVE BackLoop(_, _, _)
BackLoop(dates, i, count) ==
    IF i < 2 THEN count
    ELSE IF dates[i] - dates[i - 1] = 1
         THEN BackLoop(dates, i - 1, count + 1)
         ELSE count

\* yesterday's activity left out
CurrentStreak_today_only(dates, day) ==
    IF Len(dates) > 0 /\ day - dates[Len(dates)] < 1
    THEN BackLoop(dates, Len(dates), 0) + 1
    ELSE 0

CurrentStreak(dates, day) ==
    IF Len(dates) > 0 /\ day - dates[Len(dates)] <= 1
    THEN BackLoop(dates, Len(dates), 0) + 1
    ELSE 0

StreakDays == 0 .. MaxStreakDay

InitStreak ==
    /\ ViewIdle
    /\ stamps = <<>>
    /\ paceArg = None /\ zone = None
    /\ \E S \in SUBSET StreakDays :
          pageRows = [i \in 1 .. Cardinality(S) |-> RunRow(Sorted(S)[i], Rat(5, 1))]
    /\ today \in 0 .. MaxStreakDay + 2
    /\ max_streak = None /\ current_streak = None
    /\ heatmap_data = None

Streaks ==
    /\ max_streak = None
    /\ max_streak' = Some(LongestStreak(UniqueDates(pageRows)))
    /\ current_streak' = Some(CurrentStreak(UniqueDates(pageRows), today))
    /\ UNCHANGED <<stamps, paceArg, zone, pageRows, today, heatmap_data>>
    /\ UNCHANGED schedVars
    /\ UNCHANGED procVars
    /\ UNCHANGED syncVars

NextStreak == Streaks

SpecStreak == InitStreak /\ [][NextStreak]_vars

\* the activity dates, and the number of consecutive calendar days of S that end with day d
DateSet == {pageRows[i].date : i \in DOMAIN pageRows}
RunEndingAt(S, d) ==
    CHOOSE k \in 0 .. Cardinality(S) :
        /\ \A j \in 0 .. k - 1 : d - j \in S
        /\ d - k \notin S
LongestRun(S) ==
    IF S = {} THEN 0
    ELSE CHOOSE k \in 1 .. Cardinality(S) :
             /\ \E d \in S : RunEndingAt(S, d) = k
             /\ \A d \in S : RunEndingAt(S, d) <= k
MostRecent(S) == CHOOSE d \in S : \A e \in S : e <= d

C14_CurrentStreak ==
    current_streak # None =>
        /\ (DateSet # {} /\ MostRecent(DateSet) \in {today, today - 1})
              => current_streak[1] = RunEndingAt(DateSet, MostRecent(DateSet))
        /\ (DateSet = {} \/ MostRecent(DateSet) < today - 1)
              => current_streak[1] = 0

\* a run of three days ended yesterday, after a gap
C14_Witness ==
    /\ current_streak = Some(3)
    /\ DateSet = {0, 2, 3, 4}
    /\ today = 5

(***************************************************************************)
(* create_activity_heatmap                                                 *)
(***************************************************************************)
HeatmapBack == 364      \* timedelta(days=364)

RatAdd(a, b) == Rat(a.n * b.d + b.n * a.d, a.d * b.d)

\* df.groupby('date')['distance_km'].sum(), at one date that has rows
RECURSIVE SumKm(_, _, _)
SumKm(fr, day, i) ==
    IF i > Len(fr) THEN RatZero
    ELSE IF fr[i].date = day THEN RatAdd(fr[i].distance_km, SumKm(fr, day, i + 1))
    ELSE SumKm(fr, day, i + 1)

\* DataFrame.pivot(index='weekday', columns='week', values='distance_km') of rows
\* [date, distance_km, week, weekday]: ValueError when two rows share a cell, NaN (None)
\* in the cells no row fills
Pivot(full) ==
    LET index   == {r.weekday : r \in full}
        columns == {r.week : r \in full}
        cells   == {<<r.weekday, r.week>> : r \in full}
        at      == [c \in cells |-> {r \in full : r.weekday = c[1] /\ r.week = c[2]}]
    IN  IF Cardinality(cells) # Cardinality(full)
        THEN [ok |-> FALSE, index |-> <<>>, columns |-> <<>>, z |-> <<>>]
        ELSE [ok |-> TRUE, index |-> Sorted(index), columns |-> Sorted(columns),
              z |-> [c \in index \X columns |->
                        IF c \in cells
                        THEN Some((CHOOSE r \in at[c] : TRUE).distance_km)
                        ELSE None]]

\* the window taken one day longer
create_activity_heatmap_wide(fr, day) ==
    LET end_date   == day
        start_date == end_date - (HeatmapBack + 1)
        with_rows  == {fr[i].date : i \in DOMAIN fr}
        full_df    == {[date        |-> d,
                        distance_km |-> IF d \in with_rows THEN SumKm(fr, d, 1) ELSE RatZero,
                        week        |-> (d - start_date) \div 7,
                        weekday     |-> WeekdayIndex(d)] : d \in start_date .. end_date}
    IN  Pivot(full_df)

\* daily_km, the left merge on the 365 dates with fillna(0), week and weekday, the pivot
create_activity_heatmap(fr, day) ==
    LET end_date   == day
        start_date == end_date - HeatmapBack
        with_rows  == {fr[i].date : i \in DOMAIN fr}
        full_df    == {[date        |-> d,
                        distance_km |-> IF d \in with_rows THEN SumKm(fr, d, 1) ELSE RatZero,
                        week        |-> (d - start_date) \div 7,
                        weekday     |-> WeekdayIndex(d)] : d \in start_date .. end_date}
    IN  Pivot(full_df)

\* the dates the frame may have rows on, as days back from the day the page is drawn
HeatOffsets == {HeatmapBack + 1, HeatmapBack, 0, 0 - 1}

\* n activities of one date: 2.5 km, 5 km, 7.5 km, ...
DayRows(day, n) == [k \in 1 .. n |-> RunRow(day, Rat(5 * k, 2))]

RECURSIVE Concat(_, _)
Concat(f, order) ==
    IF order = <<>> THEN <<>> ELSE f[order[1]] \o Concat(f, Tail(order))

InitHeat ==
    /\ ViewIdle
    /\ stamps = <<>>
    /\ paceArg = None /\ zone = None
    /\ today \in {HeatmapBack + 2 + k : k \in 0 .. MaxHeatShift}
    /\ \E count \in [HeatOffsets -> 0 .. MaxPerDay] :
          pageRows = Concat([o \in HeatOffsets |-> DayRows(today - o, count[o])],
                            Sorted(HeatOffsets))
    /\ max_streak = None /\ current_streak = None
    /\ heatmap_data = None

Heatmap ==
    /\ heatmap_data = None
    /\ heatmap_data' = Some(create_activity_heatmap(pageRows, today))
    /\ UNCHANGED <<stamps, paceArg, zone, pageRows, today, max_streak, current_streak>>
    /\ UNCHANGED schedVars
    /\ UNCHANGED procVars
    /\ UNCHANGED syncVars

NextHeat == Heatmap

SpecHeat == InitHeat /\ [][NextHeat]_vars

\* the summed distance of the rows of one date, 0 without rows
KmOn(d) == SumKm(pageRows, d, 1)
HeatWindow == (today - 364) .. today

\* C15: the grid has the 7 rows Monday..Sunday; each of the 365 dates today-364 .. today
\* has its own cell at (weekday, (date - start) \div 7) holding that date's summed
\* distance_km, 0 without activity; no other cell holds a value
C15_HeatmapGrid ==
    heatmap_data # None =>
        LET h == heatmap_data[1] IN
        /\ h.ok
        /\ h.index = <<0, 1, 2, 3, 4, 5, 6>>
        /\ \A d \in HeatWindow :
              LET c == <<d % 7, (d - (today - 364)) \div 7>> IN
              /\ c \in DOMAIN h.z
              /\ h.z[c] = Some(KmOn(d))
        /\ Cardinality({<<d % 7, (d - (today - 364)) \div 7>> : d \in HeatWindow}) = 365
        /\ Cardinality({c \in DOMAIN h.z : h.z[c] # None}) = 365

\* two activities on the first date of the window are summed, one a day earlier is left out
C15_Witness ==
    /\ heatmap_data # None
    /\ KmOn(today - 364) = Rat(15, 2)
    /\ KmOn(today - 365) = Rat(5, 2)
    /\ KmOn(today) = RatZero
    /\ heatmap_data[1].z[<<(today - 364) % 7, 0>>] = Some(Rat(15, 2))

(***************************************************************************)
(* Properties of the unattended run, the caches and the cadence            *)
(***************************************************************************)
UnattendedEnded == op = "unattended" /\ pc = "done"

\* C16: the unattended run ends with status 1 when a credential is missing or a step
\* raised; it ends with status 0 only with the dataset written in full and then the
\* config written with last_update; the config is never written before the dataset
C16_UnattendedExitStatus ==
    /\ UnattendedEnded =>
          /\ exitStatus \in {Some(0), Some(1)}
          /\ (tokenReqs = <<>> \/ raised # "none") => exitStatus = Some(1)
          /\ exitStatus = Some(0) =>
                /\ raised = "none" /\ outcome = "success"
                /\ saving # None /\ csvFile = saving
                /\ LastUpdateOf(configFile) = isoformat(now)
    /\ (op = "unattended" /\ configFile # pre[1].config) =>
          (saving # None /\ csvFile = saving /\ pc = "done")

\* a run that replaced an earlier snapshot and ended with status 0
C16_Witness ==
    /\ UnattendedEnded /\ exitStatus = Some(0)
    /\ pre[1].csv # None /\ csvFile # pre[1].csv

(***************************************************************************)
(* The cadence of the automatic sync: auto_update_if_needed run after run, *)
(* the clock moving on at any point, also between the check and the stamp  *)
(***************************************************************************)
CadenceTimes == {d * SlotsPerDay + s : d \in 0 .. MaxDay, s \in {0, 15, 16, 17, 47}}

InitCadence ==
    /\ now = 0
    /\ configFile = None
    /\ due = None /\ dueArgs = None
    /\ ProcOff
    /\ SyncOff
    /\ ViewOff

ClockStep ==
    /\ \E t \in CadenceTimes : t > now /\ now' = t
    /\ UNCHANGED <<configFile, due, dueArgs>>
    /\ UNCHANGED procVars
    /\ UNCHANGED syncVars
    /\ UNCHANGED viewVars

\* config = load_config(); if should_update_data(config):
AutoCheck ==
    /\ app = "idle"
    /\ autoConfig' = Some(load_config)
    /\ due' = Some(should_update_data(load_config, now))
    /\ dueArgs' = Some([config |-> load_config, now |-> now])
    /\ app' = IF should_update_data(load_config, now) THEN "auto" ELSE "idle"
    /\ UNCHANGED <<now, configFile>>
    /\ UNCHANGED procVars
    /\ UNCHANGED <<op, pc, appConfig, page, all_activities, tokenCache, fetchCache, remote,
                   exitStatus, runs, reqs, tokenReqs, pre, raised, saving, outcome>>
    /\ UNCHANGED viewVars

\* the try block: fetch, process and save, then last_update = now is stored; or the
\* except branch, which stores nothing
AutoSync(ok) ==
    /\ app = "auto"
    /\ IF ok
       THEN /\ configFile' = Some(WithKey(autoConfig[1], "last_update", isoformat(now)))
            /\ stamps' = Append(stamps, now)
       ELSE UNCHANGED <<configFile, stamps>>
    /\ app' = "idle"
    /\ UNCHANGED <<now, due, dueArgs>>
    /\ UNCHANGED procVars
    /\ UNCHANGED <<op, pc, appConfig, autoConfig, page, all_activities, tokenCache, fetchCache,
                   remote, exitStatus, runs, reqs, tokenReqs, pre, raised, saving, outcome>>
    /\ UNCHANGED <<paceArg, zone, pageRows, today, max_streak, current_streak, heatmap_data>>

NextCadence ==
    \/ ClockStep
    \/ AutoCheck
    \/ \E ok \in BOOLEAN : AutoSync(ok)

SpecCadence == InitCadence /\ [][NextCadence]_vars

DueNow == should_update_data(load_config, now)

\* C17: with last_update left as it is and the clock not going back, a refresh that is
\* due is still due after the step
C17_DueStaysDue ==
    [][(DueNow /\ configFile' = configFile /\ now' >= now) => DueNow']_vars

\* due by the date rule alone: a sync stored last_update, and it is now a later day
\* before 08:00
C17_Witness ==
    /\ stamps # <<>>
    /\ LastUpdateOf(configFile) = isoformat(stamps[Len(stamps)])
    /\ DateOf(now) > DateOf(stamps[Len(stamps)])
    /\ HourOf(now) < 8
    /\ DueNow

StampsOn(day) == {i \in DOMAIN stamps : DateOf(stamps[i]) = day}

\* C18: right after a successful automatic sync no refresh is due; no calendar day has
\* more than two stored last_update values, and at most one of them at or after 08:00
C18_DailyCadence ==
    /\ (stamps # <<>> /\ now = stamps[Len(stamps)]
          /\ LastUpdateOf(configFile) = isoformat(now)) => ~DueNow
    /\ \A day \in 0 .. MaxDay + 1 :
          /\ Cardinality(StampsOn(day)) <= 2
          /\ Cardinality({i \in StampsOn(day) : HourOf(stamps[i]) >= 8}) <= 1

\* a day with two automatic syncs, one before 08:00 and one at 08:00
C18_Witness ==
    \E i, j \in DOMAIN stamps :
        /\ DateOf(stamps[i]) = DateOf(stamps[j])
        /\ HourOf(stamps[i]) < 8
        /\ HourOf(stamps[j]) = 8 /\ MinuteOf(stamps[j]) = 0

\* C19: an operation that wrote the dataset file and returns normally has recorded
\* last_update, so a persisted dataset never stands without it
C19_DatasetHasLastUpdate ==
    (pc = "done" /\ outcome = "success" /\ csvFile # None) => LastUpdateOf(configFile) # None

\* C20: a manual or automatic sync that succeeded made its own page requests; what it
\* persisted was not a memoized result of an earlier fetch
C20_SyncFetchesAfresh ==
    (op \in {"manual", "auto"} /\ pc = "done" /\ outcome = "success") => reqs # <<>>

====
